---- MODULE Spec2Model ----
(***************************************************************************)
(* sren: batch move/copy driven by "<source" / ">destination" instruction  *)
(* lines.  This module models the line splitter (src/line.rs), the         *)
(* instruction parser (src/path.rs), the transfer engine (src/fs.rs) and   *)
(* the read loop of the driver (src/main.rs).                              *)
(*                                                                         *)
(* In Spec and SpecLine the input stream is the environment: every call   *)
(* of read_until is given one of the raw chunks that BufRead::read_until   *)
(* behind Read::take can produce on some stream.  SpecStream and SpecTwice *)
(* read a given input, SpecPreview previews a given record, SpecFs calls   *)
(* transfer once and SpecRun runs the loop on a concrete file system.      *)
(* Bytes are their numeric values.                                         *)
(***************************************************************************)
EXTENDS Integers, Sequences, FiniteSets, TLC

VARIABLES
    sep,        \* LineReader.separator: "Newline" or "Null"
    unix,       \* build target: TRUE for cfg(unix), FALSE otherwise
    eof,        \* LineReader.inner is exhausted
    buffer,     \* LineReader.buffer
    src,        \* PathReader.src : Option<OsString>, <<>> or <<path>>
    dst,        \* PathReader.dst : Option<OsString>, <<>> or <<path>>
    line,       \* PathReader.line
    pc,         \* position of try_main: "read", "pair", "done", "failed", "aborted"
                \* ("start": the process has not been started)
    ret,        \* value returned by the last PathReader::read that returned
    lret,       \* kind of the value the last LineReader::read returned, with
                \* the length read_until gave to its closure (history)
    raw,        \* history: bytes the last LineReader::read took from the stream
    limit,      \* history: max_len of the last LineReader::read
    calls,      \* history: calls of LineReader::read so far
    pulled,     \* history: records handed out by the line splitter so far
    lastSource, \* history: payload of the latest Source line of the input
    destsSince, \* history: Dest lines of the input since the latest Source line
    nDest,      \* history: Dest lines of the input so far
    nPairs,     \* history: pairs returned by PathReader::read so far
    fs,         \* the file system: what each path of Paths names
    mode,       \* try_main's mode: "Move" or "Copy"
    pre,        \* history: the file system when transfer was last called
    tsrc,       \* history: src of the last call of transfer
    tdst,       \* history: dst of the last call of transfer
    tret,       \* history: what the last call of transfer returned, "-" before
    fallback,   \* history: fs::rename failed in the last call of transfer
    sameCopy,   \* history: a low-level copy was given one entry as both ends
    tby,        \* history: the call whose result the last transfer returned
    nApplied,   \* history: calls of transfer that try_main has made
    verbose,    \* cli.verbose
    err,        \* the error the loop body of try_main returned, "-" if none
    exit,       \* exit status of the process: "0", "1", or "-" while it runs
    surfaced,   \* the error main printed, "-" if none
    input,      \* the bytes given to the program: the whole of standard input
    rest,       \* the bytes of input that LineReader.inner has not delivered
    taken,      \* history: the bytes the calls of LineReader::read consumed
    out         \* what a function applied to input returned, <<>> before

\* What the reader's steps leave alone.
xferVars == <<fs, mode, pre, tsrc, tdst, tret, fallback, sameCopy, tby, nApplied,
              verbose, err, exit, surfaced, input, rest, taken, out>>

vars == <<sep, unix, eof, buffer, src, dst, line, pc, ret, lret, raw, limit,
          calls, pulled, lastSource, destsSince, nDest, nPairs, xferVars>>

----------------------------------------------------------------------------
(* Constants of the program and bounds of the model. *)

\* MAX_LINE of src/path.rs.  The program sets 1024 * 1024; the model keeps
\* the comparisons made with it and scales the value down, so that records
\* below, at and above the limit all occur.
MAX_LINE == 3

MAX_PREVIEW == 30

\* The preview length of Preview in src/instr.rs.
PREVIEW_60 == 60

\* "." of the marker "..."
DOT == 46

\* Cap on the number of loop iterations of PathReader::read in one run.
MaxReads == 4

\* Largest max_len handed to LineReader::read when it is called directly.
MaxLimit == 3

\* Cap on the number of direct calls of LineReader::read.
MaxCalls == 2

\* Longest standard input that is given byte by byte.
MaxInput == 4

\* Longest standard input of a run that is followed to its end.
MaxLive == 5

\* Most entries the file system has when a run of the program begins.
MaxEntries == 3

\* Longest run of one byte in a record that is previewed.
MaxFill == 31

----------------------------------------------------------------------------
(* Bytes. *)

NUL == 0
LF == 10
CR == 13
LT == 60
GT == 62
\* A byte that never occurs in valid UTF-8 next to the other bytes of Byte.
XC3 == 195

Byte == {NUL, LF, CR, LT, GT, XC3}

Separators == {"Newline", "Null"}

None == <<>>
Some(x) == <<x>>

Last(s) == s[Len(s)]
Pop(s) == SubSeq(s, 1, Len(s) - 1)

RECURSIVE SeqsOfLen(_)
SeqsOfLen(n) ==
    IF n = 0 THEN {<<>>} ELSE {Append(s, b) : s \in SeqsOfLen(n - 1), b \in Byte}

SeqsUpTo(n) == UNION {SeqsOfLen(k) : k \in 0..n}

----------------------------------------------------------------------------
(* src/line.rs *)

as_byte(s) == IF s = "Newline" THEN LF ELSE NUL

\* Variant: the "\r" is popped whether or not a "\n" followed it.
remove_trail_crAlways(s, b) ==
    IF s = "Newline"
    THEN LET b1 == IF Len(b) > 0 /\ Last(b) = LF THEN Pop(b) ELSE b
         IN  IF Len(b1) > 0 /\ Last(b1) = CR THEN Pop(b1) ELSE b1
    ELSE IF Len(b) > 0 /\ Last(b) = NUL THEN Pop(b) ELSE b

\* Variant: the Null separator also pops a "\r" before the "\0".
remove_trail_nullCr(s, b) ==
    IF Len(b) > 0 /\ Last(b) = as_byte(s)
    THEN LET b1 == Pop(b)
         IN  IF Len(b1) > 0 /\ Last(b1) = CR THEN Pop(b1) ELSE b1
    ELSE b

remove_trail(s, b) ==
    IF s = "Newline"
    THEN IF Len(b) > 0 /\ Last(b) = LF
         THEN LET b1 == Pop(b)
              IN  IF Len(b1) > 0 /\ Last(b1) = CR THEN Pop(b1) ELSE b1
         ELSE b
    ELSE IF Len(b) > 0 /\ Last(b) = NUL THEN Pop(b) ELSE b

\* What inner.by_ref().take(max_len).read_until(byte, buf) can append to buf:
\* at most max_len bytes, ending at the first occurrence of byte.
IsChunk(c, byte, max_len) ==
    Len(c) <= max_len /\ \A i \in 1..(Len(c) - 1) : c[i] # byte

\* The chunks for every delimiter and every limit the model uses, worked out once.
ChunkTable ==
    [byte \in {LF, NUL} |->
        [max_len \in 0..(IF MAX_LINE > MaxLimit THEN MAX_LINE ELSE MaxLimit) |->
            {c \in SeqsUpTo(max_len) : IsChunk(c, byte, max_len)}]]

Chunks(byte, max_len) == ChunkTable[byte][max_len]

\* Variant: the delimiter is left in the stream.
RECURSIVE read_until_exclusive(_, _, _)
read_until_exclusive(s, byte, max_len) ==
    IF Len(s) = 0 \/ max_len = 0 \/ Head(s) = byte THEN <<>>
    ELSE <<Head(s)>> \o read_until_exclusive(Tail(s), byte, max_len - 1)

\* inner.by_ref().take(max_len).read_until(byte, buf) on a stream that
\* still holds the bytes s: the bytes up to and including the first byte,
\* or the first max_len bytes, or all of s, whichever ends first.
RECURSIVE read_until(_, _, _)
read_until(s, byte, max_len) ==
    IF Len(s) = 0 \/ max_len = 0 THEN <<>>
    ELSE IF Head(s) = byte THEN <<byte>>
    ELSE <<Head(s)>> \o read_until(Tail(s), byte, max_len - 1)

\* The stream after n bytes were taken from it.
Advance(s, n) == SubSeq(s, n + 1, Len(s))

\* read_until stopped because the stream ended, not because of the delimiter
\* or the limit of take.
HitsEof(c, byte, max_len) ==
    Len(c) < max_len /\ ~(Len(c) > 0 /\ Last(c) = byte)

\* Variant: None is returned when the stripped record is empty.
LineReader_map_emptyNone(s, chunk) ==
    IF Len(remove_trail(s, chunk)) > 0
    THEN [kind |-> "Some", length |-> Len(chunk), buffer |-> remove_trail(s, chunk)]
    ELSE [kind |-> "None", length |-> Len(chunk), buffer |-> remove_trail(s, chunk)]

\* The closure of LineReader::read: Some(stripped buffer) iff length > 0.
LineReader_map(s, chunk) ==
    IF Len(chunk) > 0
    THEN [kind |-> "Some", length |-> Len(chunk), buffer |-> remove_trail(s, chunk)]
    ELSE [kind |-> "None", length |-> 0, buffer |-> chunk]

\* The records LineReader::read(max_len) returns for the stream s when it
\* is called until it returns None.
RECURSIVE Lines(_, _, _)
Lines(sp, s, max_len) ==
    LET chunk == read_until(s, as_byte(sp), max_len)
        r == LineReader_map(sp, chunk)
    IN  IF r.kind = "None" THEN <<>>
        ELSE <<r.buffer>> \o Lines(sp, Advance(s, Len(chunk)), max_len)

\* LineReader::read(max_len) returning Ok, the stream delivering chunk.
LineReader_read(max_len, chunk) ==
    /\ IsChunk(chunk, as_byte(sep), max_len)
    /\ eof => chunk = <<>>
    /\ eof' = (eof \/ HitsEof(chunk, as_byte(sep), max_len))
    /\ LET r == LineReader_map(sep, chunk)
       IN  /\ buffer' = r.buffer
           /\ lret' = [kind |-> r.kind, length |-> r.length]
    /\ raw' = chunk
    /\ limit' = max_len
    /\ calls' = calls + 1
    /\ pulled' = IF Len(chunk) > 0 THEN pulled + 1 ELSE pulled

\* LineReader::read(max_len) returning Err: read_until failed after chunk
\* had been appended to the buffer; the closure does not run.
LineReader_read_err(max_len, chunk) ==
    /\ ~eof
    /\ IsChunk(chunk, as_byte(sep), max_len)
    /\ Len(chunk) < max_len
    /\ ~(Len(chunk) > 0 /\ Last(chunk) = as_byte(sep))
    /\ eof' = eof
    /\ buffer' = chunk
    /\ lret' = [kind |-> "Err", length |-> Len(chunk)]
    /\ raw' = chunk
    /\ limit' = max_len
    /\ calls' = calls + 1
    /\ pulled' = pulled + 1

----------------------------------------------------------------------------
(* src/path.rs *)

\* bstr's to_os_str: always succeeds on Unix, needs valid UTF-8 elsewhere.
\* Over Byte the only byte outside ASCII is XC3, which no other byte of Byte
\* can complete to a UTF-8 sequence.
to_os_str_ok(tail) == unix \/ \A i \in 1..Len(tail) : tail[i] < 128

\* Variant: the path keeps the prefix byte.
parse_line_wholeLine(l) ==
    IF Len(l) = 0
    THEN [ok |-> FALSE, cause |-> "EmptyLine", kind |-> "-", path |-> <<>>]
    ELSE IF Head(l) # LT /\ Head(l) # GT
    THEN [ok |-> FALSE, cause |-> "InvalidPrefix", kind |-> "-", path |-> <<>>]
    ELSE IF Len(l) = 1
    THEN [ok |-> FALSE, cause |-> "EmptyPath", kind |-> "-", path |-> <<>>]
    ELSE IF ~to_os_str_ok(Tail(l))
    THEN [ok |-> FALSE, cause |-> "InvalidEncoding", kind |-> "-", path |-> <<>>]
    ELSE [ok |-> TRUE, cause |-> "-",
          kind |-> IF Head(l) = LT THEN "Source" ELSE "Dest", path |-> l]

\* Variant: the empty tail is tested before the prefix byte.
parse_line_tailFirst(l) ==
    IF Len(l) = 0
    THEN [ok |-> FALSE, cause |-> "EmptyLine", kind |-> "-", path |-> <<>>]
    ELSE IF Len(l) = 1
    THEN [ok |-> FALSE, cause |-> "EmptyPath", kind |-> "-", path |-> <<>>]
    ELSE IF Head(l) # LT /\ Head(l) # GT
    THEN [ok |-> FALSE, cause |-> "InvalidPrefix", kind |-> "-", path |-> <<>>]
    ELSE IF ~to_os_str_ok(Tail(l))
    THEN [ok |-> FALSE, cause |-> "InvalidEncoding", kind |-> "-", path |-> <<>>]
    ELSE [ok |-> TRUE, cause |-> "-",
          kind |-> IF Head(l) = LT THEN "Source" ELSE "Dest", path |-> Tail(l)]

parse_line(l) ==
    IF Len(l) = 0
    THEN [ok |-> FALSE, cause |-> "EmptyLine", kind |-> "-", path |-> <<>>]
    ELSE IF Head(l) # LT /\ Head(l) # GT
    THEN [ok |-> FALSE, cause |-> "InvalidPrefix", kind |-> "-", path |-> <<>>]
    ELSE IF Len(l) = 1
    THEN [ok |-> FALSE, cause |-> "EmptyPath", kind |-> "-", path |-> <<>>]
    ELSE IF ~to_os_str_ok(Tail(l))
    THEN [ok |-> FALSE, cause |-> "InvalidEncoding", kind |-> "-", path |-> <<>>]
    ELSE [ok |-> TRUE, cause |-> "-",
          kind |-> IF Head(l) = LT THEN "Source" ELSE "Dest", path |-> Tail(l)]

\* line.chars() of bstr: the characters of the bytes decoded as UTF-8, each
\* byte that is not part of a valid sequence giving U+FFFD.  Over Byte every
\* byte below 128 is a character and XC3 is never part of a valid sequence.
\* len is what String::len counts for the character (len_utf8).
RECURSIVE chars(_)
chars(l) ==
    IF Len(l) = 0 THEN <<>>
    ELSE <<[byte |-> Head(l), valid |-> Head(l) < 128,
            len |-> IF Head(l) < 128 THEN 1 ELSE 3]>> \o chars(Tail(l))

\* String::len: the bytes of the string in UTF-8.
RECURSIVE String_len(_)
String_len(str) ==
    IF Len(str) = 0 THEN 0 ELSE Head(str).len + String_len(Tail(str))

\* The marker pushed by push_str("...").
Marker == [i \in 1..3 |-> [byte |-> DOT, valid |-> TRUE, len |-> 1]]

\* The loop of preview_line: cs are the characters still to push.
RECURSIVE preview_loop(_, _)
preview_loop(cs, preview) ==
    IF Len(cs) = 0 THEN preview
    ELSE IF String_len(Append(preview, Head(cs))) > MAX_PREVIEW
    THEN preview \o Marker
    ELSE preview_loop(Tail(cs), Append(preview, Head(cs)))

\* fn preview_line(line: &[u8]) -> String
preview_line(l) == preview_loop(chars(l), <<>>)

RetStart == [kind |-> "start", src |-> <<>>, dst |-> <<>>, cause |-> "-", line |-> 0]
RetNone == [kind |-> "none", src |-> <<>>, dst |-> <<>>, cause |-> "-", line |-> 0]
RetPair(s, d) == [kind |-> "pair", src |-> s, dst |-> d, cause |-> "-", line |-> 0]
RetErr(c, n) == [kind |-> "err", src |-> <<>>, dst |-> <<>>, cause |-> c, line |-> n]

\* PathReader::read as a function: the reader has the pending source p and
\* the line count n, the stream holds s.  The loop runs until it returns.
RECURSIVE PathReader_read(_, _, _, _)
PathReader_read(sp, p, n, s) ==
    LET chunk == read_until(s, as_byte(sp), MAX_LINE)
        r == LineReader_map(sp, chunk)
        after == Advance(s, Len(chunk))
        parsed == parse_line(r.buffer)
        Return(v) == [ret |-> v, src |-> p, line |-> n + 1, rest |-> after]
    IN  IF r.kind = "None" THEN Return(RetNone)
        ELSE IF Len(r.buffer) >= MAX_LINE THEN Return(RetErr("LineOverflow", n + 1))
        ELSE IF ~parsed.ok THEN Return(RetErr(parsed.cause, n + 1))
        ELSE IF parsed.kind = "Source"
        THEN PathReader_read(sp, Some(parsed.path), n + 1, after)
        ELSE IF p = None THEN Return(RetErr("NoSourcePath", n + 1))
        ELSE Return(RetPair(p[1], parsed.path))

\* Variant: a Source line is parsed again by the next iteration.
PathReader_iteration_noAdvance(sp, p, s) ==
    LET chunk == read_until(s, as_byte(sp), MAX_LINE)
        r == LineReader_map(sp, chunk)
        parsed == parse_line(r.buffer)
        Go(to, v, q, c) == [chunk |-> c, pc |-> to, ret |-> v, src |-> q]
    IN  IF r.kind = "None" THEN Go("done", "none", p, chunk)
        ELSE IF Len(r.buffer) >= MAX_LINE THEN Go("failed", "LineOverflow", p, chunk)
        ELSE IF ~parsed.ok THEN Go("failed", parsed.cause, p, chunk)
        ELSE IF parsed.kind = "Source" THEN Go("read", "-", Some(parsed.path), <<>>)
        ELSE IF p = None THEN Go("failed", "NoSourcePath", p, chunk)
        ELSE Go("pair", parsed.path, p, chunk)

\* One iteration of the loop of PathReader::read, the reader having the
\* pending source p and the stream holding s: the chunk that read_until
\* takes, where the iteration ends (pc: "read" for continue, "done" for
\* Ok(None), "failed" for Err, "pair" for Ok(Some)), what it returns (the
\* cause of the error, or the destination of the pair) and the source
\* that is pending afterwards.
PathReader_iteration(sp, p, s) ==
    LET chunk == read_until(s, as_byte(sp), MAX_LINE)
        r == LineReader_map(sp, chunk)
        parsed == parse_line(r.buffer)
        Go(to, v, q, c) == [chunk |-> c, pc |-> to, ret |-> v, src |-> q]
    IN  IF r.kind = "None" THEN Go("done", "none", p, chunk)
        ELSE IF Len(r.buffer) >= MAX_LINE THEN Go("failed", "LineOverflow", p, chunk)
        ELSE IF ~parsed.ok THEN Go("failed", parsed.cause, p, chunk)
        ELSE IF parsed.kind = "Source" THEN Go("read", "-", Some(parsed.path), chunk)
        ELSE IF p = None THEN Go("failed", "NoSourcePath", p, chunk)
        ELSE Go("pair", parsed.path, p, chunk)

\* What the loop of try_main gets from path_reader.read() for the stream s:
\* the pairs, then the Ok(None) or the Err that ends the loop.
RECURSIVE Results(_, _, _, _)
Results(sp, p, n, s) ==
    LET r == PathReader_read(sp, p, n, s)
    IN  IF r.ret.kind = "pair"
        THEN <<r.ret>> \o Results(sp, r.src, r.line, r.rest)
        ELSE <<r.ret>>

----------------------------------------------------------------------------
(* The file system that src/fs.rs works on.  A path is the sequence of its *)
(* components; the working directory <<>> is a directory that always       *)
(* exists.  No two paths of Paths name the same entry (no links).          *)

\* The paths of the model: a source tree "a", a destination tree "b", deep
\* enough for nested merges and for a destination inside its source.
Paths ==
    { <<"a">>, <<"a", "c">>, <<"a", "d">>, <<"a", "d", "c">>,
      <<"a", "d", "d">>, <<"a", "d", "d", "c">>,
      <<"b">>, <<"b", "c">>, <<"b", "d">>, <<"b", "d", "c">> }

\* The order in which read_dir lists entries is the file system's choice:
\* get_dir_content walks depth first, siblings in one of these two orders.
Walk ==
    << <<"a">>, <<"a", "c">>, <<"a", "d">>, <<"a", "d", "c">>,
       <<"a", "d", "d">>, <<"a", "d", "d", "c">>,
       <<"b">>, <<"b", "c">>, <<"b", "d">>, <<"b", "d", "c">> >>

WalkRev ==
    << <<"b">>, <<"b", "d">>, <<"b", "d", "c">>, <<"b", "c">>,
       <<"a">>, <<"a", "d">>, <<"a", "d", "d">>, <<"a", "d", "d", "c">>,
       <<"a", "d", "c">>, <<"a", "c">> >>

Walks == {Walk, WalkRev}

\* File contents written by the tests: write(.., "1"), write(.., "2").
Contents == {"1", "2"}

TransferModes == {"Move", "Copy"}

\* What a path names: nothing, a directory, or a file with its content.
Missing == [type |-> "Unknown", data |-> ""]
Dir == [type |-> "Dir", data |-> ""]
File(data) == [type |-> "File", data |-> data]

EmptyFs == [q \in Paths |-> Missing]

At(f, p) ==
    IF Len(p) = 0 THEN Dir
    ELSE IF p \in Paths THEN f[p]
    ELSE Missing

\* impl From<&Path> for FileType: metadata() follows the path.
FileType_from(f, p) == At(f, p).type

\* Path::starts_with, Path::strip_prefix, Path::join, Path::parent
IsPrefix(p, q) == Len(p) <= Len(q) /\ SubSeq(q, 1, Len(p)) = p
Rel(p, q) == SubSeq(q, Len(p) + 1, Len(q))
Join(p, r) == p \o r
Parent(p) == Pop(p)

\* Variant: only the last component is made (std::fs::create_dir).
create_all_oneLevel(f, p) ==
    LET ok == At(f, Pop(p)).type = "Dir" /\ At(f, p).type # "File"
    IN  [ok |-> ok,
         fs |-> IF ok /\ Len(p) > 0 THEN [f EXCEPT ![p] = Dir] ELSE f,
         same |-> FALSE]

\* fs_extra::dir::create_all(path, false) = std::fs::create_dir_all: makes
\* every missing directory down to path; fails, having made nothing, when
\* a component of path is a file.
create_all(f, p) ==
    LET ok == \A k \in 1..Len(p) : At(f, SubSeq(p, 1, k)).type # "File"
    IN  [ok |-> ok,
         fs |-> IF ok
                THEN [q \in Paths |->
                        IF IsPrefix(q, p) /\ f[q].type = "Unknown" THEN Dir ELSE f[q]]
                ELSE f,
         same |-> FALSE]

\* Variant: every rename is refused.
rename_refused(f, s, d, xdev) ==
    [ok |-> FALSE, fs |-> f, same |-> FALSE]

\* std::fs::rename = rename(2).  Renaming an entry to itself succeeds and
\* does nothing; across devices (xdev) it fails; a file replaces a file; a
\* directory replaces an empty directory only, and cannot go below itself.
rename(f, s, d, xdev) ==
    LET st == At(f, s).type
        dt == At(f, d).type
        empty == \A q \in Paths : (IsPrefix(d, q) /\ q # d) => f[q].type = "Unknown"
        ok == /\ st # "Unknown"
              /\ At(f, Parent(d)).type = "Dir"
              /\ (s # d) => /\ ~xdev
                            /\ (st = "File") => (dt # "Dir")
                            /\ (st = "Dir") => (dt # "File" /\ ~IsPrefix(s, d) /\ empty)
    IN  [ok |-> ok,
         fs |-> IF ok /\ s # d
                THEN [q \in Paths |->
                        IF IsPrefix(d, q) THEN At(f, Join(s, Rel(d, q)))
                        ELSE IF IsPrefix(s, q) THEN Missing
                        ELSE f[q]]
                ELSE f,
         same |-> FALSE]

\* same_file::is_same_file on two existing paths: one entry per path.
is_same_file_never(s, d) == FALSE

is_same_file(s, d) == s = d

\* Variant: an existing destination is kept (skip_exist).
file_copy_skipExist(f, from, to) ==
    LET ok == /\ At(f, from).type = "File"
              /\ to \in Paths
              /\ At(f, to).type # "Dir"
              /\ At(f, Parent(to)).type = "Dir"
    IN  [ok |-> ok,
         fs |-> IF ok /\ At(f, to).type = "Unknown" THEN [f EXCEPT ![to] = f[from]] ELSE f,
         same |-> ok /\ from = to]

\* fs_extra::file::copy with FILE_COPY_OPTIONS (overwrite) = std::fs::copy.
\* Given one entry as both ends, the destination is opened truncating
\* before anything is read: the content is lost.
file_copy(f, from, to) ==
    LET ok == /\ At(f, from).type = "File"
              /\ to \in Paths
              /\ At(f, to).type # "Dir"
              /\ At(f, Parent(to)).type = "Dir"
    IN  [ok |-> ok,
         fs |-> IF ~ok THEN f
                ELSE IF from = to THEN [f EXCEPT ![to] = File("")]
                ELSE [f EXCEPT ![to] = f[from]],
         same |-> ok /\ from = to]

\* Variant: the source is not removed.
file_move_file_keep(f, from, to) == file_copy(f, from, to)

\* fs_extra::file::move_file: copy, then remove the source.
file_move_file(f, from, to) ==
    LET c == file_copy(f, from, to)
    IN  IF c.ok THEN [c EXCEPT !.fs = [c.fs EXCEPT ![from] = Missing]] ELSE c

\* fs_extra::dir::get_dir_content(from): the directories (from first) and
\* the files below from, in the order of the walk.
dir_content(f, from, walk) ==
    [directories |-> SelectSeq(walk, LAMBDA q : IsPrefix(from, q) /\ f[q].type = "Dir"),
     files |-> SelectSeq(walk, LAMBDA q : IsPrefix(from, q) /\ f[q].type = "File")]

\* for directory in dir_content.directories: create to.join(directory
\* stripped of from) unless something exists there.
RECURSIVE create_dirs(_, _, _, _)
create_dirs(f, from, to, directories) ==
    IF Len(directories) = 0 THEN [ok |-> TRUE, fs |-> f, same |-> FALSE]
    ELSE LET dir == Join(to, Rel(from, Head(directories)))
             made == IF At(f, dir).type # "Unknown"
                     THEN [ok |-> TRUE, fs |-> f, same |-> FALSE]
                     ELSE create_all(f, dir)
         IN  IF made.ok THEN create_dirs(made.fs, from, to, Tail(directories))
             ELSE made

\* for file in dir_content.files: file::copy (dir::copy) or file::move_file
\* (dir::move_dir) to to.join(file stripped of from); the first error ends
\* the loop.
RECURSIVE each_file(_, _, _, _, _, _)
each_file(f, from, to, files, moving, same) ==
    IF Len(files) = 0 THEN [ok |-> TRUE, fs |-> f, same |-> same]
    ELSE LET path == Join(to, Rel(from, Head(files)))
             r == IF moving THEN file_move_file(f, Head(files), path)
                  ELSE file_copy(f, Head(files), path)
         IN  IF r.ok THEN each_file(r.fs, from, to, Tail(files), moving, same \/ r.same)
             ELSE [r EXCEPT !.same = same]

\* fs_extra::dir::copy with DIR_COPY_OPTIONS (content_only, overwrite): the
\* content of from is copied into to, merging with what is there.
dir_copy(f, from, to, walk) ==
    LET content == dir_content(f, from, walk)
        made == create_dirs(f, from, to, content.directories)
    IN  IF At(f, from).type # "Dir" THEN [ok |-> FALSE, fs |-> f, same |-> FALSE]
        ELSE IF ~made.ok THEN made
        ELSE each_file(made.fs, from, to, content.files, FALSE, from = to)

\* fs_extra::dir::move_dir with DIR_COPY_OPTIONS: as dir::copy, every file
\* removed once copied, and at the end remove(from), which deletes whatever
\* is then below from.
dir_move_dir(f, from, to, walk) ==
    LET content == dir_content(f, from, walk)
        made == create_dirs(f, from, to, content.directories)
        moved == each_file(made.fs, from, to, content.files, TRUE, from = to)
    IN  IF At(f, from).type # "Dir" THEN [ok |-> FALSE, fs |-> f, same |-> FALSE]
        ELSE IF ~made.ok THEN made
        ELSE IF ~moved.ok THEN moved
        ELSE [moved EXCEPT !.fs = [q \in Paths |->
                                    IF IsPrefix(from, q) THEN Missing ELSE moved.fs[q]]]

----------------------------------------------------------------------------
(* src/fs.rs: transfer.  The result is what it returns (ret: "Ok", or the   *)
(* kind of the error: "NotFound", "Other", or "Io" for an error of a call   *)
(* passed on by `?`), the file system it leaves, whether fs::rename failed  *)
(* (fallback) and whether a low-level copy got one entry as both ends.      *)

Returned(kind, r, fell, by) ==
    [ret |-> kind, fs |-> r.fs, fallback |-> fell, same |-> r.same, by |-> by]

Failed(kind, f) ==
    [ret |-> kind, fs |-> f, fallback |-> FALSE, same |-> FALSE, by |-> "transfer"]

\* The result r of the call named by is what transfer returns.
Outcome(r, fell, by) == Returned(IF r.ok THEN "Ok" ELSE "Io", r, fell, by)

\* Variant: the error of fs::rename is returned, nothing else is tried.
transfer_file_noFallback(f, s, d, dst_type, m, xdev) ==
    LET made == create_all(f, Parent(d))
        renamed == rename(made.fs, s, d, xdev)
    IN  IF ~made.ok THEN Outcome(made, FALSE, "create_all")
        ELSE IF m = "Move"
        THEN Outcome(renamed, FALSE, "rename")
        ELSE IF dst_type = "Unknown" \/ ~is_same_file(s, d)
             THEN Outcome(file_copy(made.fs, s, d), FALSE, "copy")
             ELSE Outcome(made, FALSE, "create_all")

\* (FileType::File, dst_type) => { .. }
transfer_file(f, s, d, dst_type, m, xdev) ==
    LET made == create_all(f, Parent(d))
        renamed == rename(made.fs, s, d, xdev)
    IN  IF ~made.ok THEN Outcome(made, FALSE, "create_all")
        ELSE IF m = "Move"
        THEN IF renamed.ok THEN Outcome(renamed, FALSE, "rename")
             ELSE Outcome(file_move_file(made.fs, s, d), TRUE, "move_file")
        ELSE IF dst_type = "Unknown" \/ ~is_same_file(s, d)
             THEN Outcome(file_copy(made.fs, s, d), FALSE, "copy")
             ELSE Outcome(made, FALSE, "create_all")

\* (FileType::Dir, dst_type) => { .. }
transfer_dir(f, s, d, dst_type, m, xdev, walk) ==
    LET made == create_all(f, d)
        renamed == rename(made.fs, s, d, xdev)
    IN  IF ~made.ok THEN Outcome(made, FALSE, "create_all")
        ELSE IF m = "Move"
        THEN IF renamed.ok THEN Outcome(renamed, FALSE, "rename")
             ELSE Outcome(dir_move_dir(made.fs, s, d, walk), TRUE, "move_dir")
        ELSE IF dst_type = "Unknown" \/ ~is_same_file(s, d)
             THEN Outcome(dir_copy(made.fs, s, d, walk), FALSE, "copy")
             ELSE Outcome(made, FALSE, "create_all")

\* Variant: the directories of the destination are made before the source
\* is looked at.
transfer_parentsFirst(f, s, d, m, xdev, walk) ==
    LET g == create_all(f, Parent(d)).fs
        src_type == FileType_from(g, s)
        dst_type == FileType_from(g, d)
    IN  IF src_type = "Unknown" THEN Failed("NotFound", g)
        ELSE IF src_type = "File" /\ dst_type = "Dir" THEN Failed("Other", g)
        ELSE IF src_type = "Dir" /\ dst_type = "File" THEN Failed("Other", g)
        ELSE IF src_type = "File" THEN transfer_file(g, s, d, dst_type, m, xdev)
        ELSE transfer_dir(g, s, d, dst_type, m, xdev, walk)

\* Variant: no arm for a file against a directory.
transfer_noConflict(f, s, d, m, xdev, walk) ==
    LET src_type == FileType_from(f, s)
        dst_type == FileType_from(f, d)
    IN  IF src_type = "Unknown" THEN Failed("NotFound", f)
        ELSE IF src_type = "File" THEN transfer_file(f, s, d, dst_type, m, xdev)
        ELSE transfer_dir(f, s, d, dst_type, m, xdev, walk)

\* pub fn transfer(src, dst, mode): match (FileType::from(src), FileType::from(dst))
transfer(f, s, d, m, xdev, walk) ==
    LET src_type == FileType_from(f, s)
        dst_type == FileType_from(f, d)
    IN  IF src_type = "Unknown" THEN Failed("NotFound", f)
        ELSE IF src_type = "File" /\ dst_type = "Dir" THEN Failed("Other", f)
        ELSE IF src_type = "Dir" /\ dst_type = "File" THEN Failed("Other", f)
        ELSE IF src_type = "File" THEN transfer_file(f, s, d, dst_type, m, xdev)
        ELSE transfer_dir(f, s, d, dst_type, m, xdev, walk)

\* The model follows a transfer only when everything it can create has a
\* path in Paths.
Fits(f, s, d) ==
    (At(f, s).type = "Dir" /\ At(f, d).type # "File") =>
        \A q \in Paths :
            (IsPrefix(s, q) /\ create_all(f, d).fs[q].type # "Unknown")
                => Join(d, Rel(s, q)) \in Paths

----------------------------------------------------------------------------
(* The instruction stream as the format defines it, read off the raw bytes  *)
(* of a record: used by the history variables and by the properties, never  *)
(* by the actions' guards.                                                  *)

EndsWith(c, t) ==
    Len(c) >= Len(t) /\ SubSeq(c, Len(c) - Len(t) + 1, Len(c)) = t

\* The record of a raw chunk: the chunk without its line terminator.
RecordOf(s, c) ==
    IF s = "Newline"
    THEN IF EndsWith(c, <<CR, LF>>) THEN SubSeq(c, 1, Len(c) - 2)
         ELSE IF EndsWith(c, <<LF>>) THEN SubSeq(c, 1, Len(c) - 1)
         ELSE c
    ELSE IF EndsWith(c, <<NUL>>) THEN SubSeq(c, 1, Len(c) - 1) ELSE c

Decodable(p) == unix \/ ~(\E i \in DOMAIN p : p[i] = XC3)

IsInstruction(r, prefix) ==
    Len(r) >= 2 /\ r[1] = prefix /\ Decodable(SubSeq(r, 2, Len(r)))

IsSourceLine(r) == IsInstruction(r, LT)
IsDestLine(r) == IsInstruction(r, GT)
Payload(r) == SubSeq(r, 2, Len(r))

\* The record of the last chunk taken from the stream.
Rec == RecordOf(sep, raw)

\* The history of Source and Dest lines after chunk was taken as a record.
Observe(chunk) ==
    LET r == RecordOf(sep, chunk)
    IN  /\ lastSource' = IF IsSourceLine(r) THEN Some(Payload(r)) ELSE lastSource
        /\ destsSince' = IF IsSourceLine(r) THEN 0
                         ELSE IF IsDestLine(r) THEN destsSince + 1
                         ELSE destsSince
        /\ nDest' = IF IsDestLine(r) THEN nDest + 1 ELSE nDest

----------------------------------------------------------------------------
(* PathReader::read, one action per way an iteration of its loop can end.  *)

InitReader ==
    /\ sep \in Separators
    /\ unix \in BOOLEAN
    /\ eof = FALSE
    /\ buffer = <<>>
    /\ src = None
    /\ dst = None
    /\ line = 0
    /\ pc = "read"
    /\ ret = RetStart
    /\ lret = [kind |-> "start", length |-> 0]
    /\ raw = <<>>
    /\ limit = 0
    /\ calls = 0
    /\ pulled = 0
    /\ lastSource = None
    /\ destsSince = 0
    /\ nDest = 0
    /\ nPairs = 0

\* No call of transfer yet.
NoTransfer ==
    /\ pre = fs
    /\ tsrc = <<>>
    /\ tdst = <<>>
    /\ tret = "-"
    /\ fallback = FALSE
    /\ sameCopy = FALSE
    /\ tby = "-"

\* main has not returned and try_main has met no error in its loop body.
\* Standard input is the environment: its bytes are chosen read by read.
Running ==
    /\ err = "-"
    /\ exit = "-"
    /\ surfaced = "-"
    /\ input = <<>>
    /\ rest = <<>>
    /\ taken = <<>>
    /\ out = <<>>

\* try_main before its loop.  The file system is the environment of the
\* driver: its content is left out here, and transfer returns any of its
\* results (TryMainLoop, TryMainFail).
Init ==
    /\ InitReader
    /\ fs = EmptyFs
    /\ mode = "Move"
    /\ NoTransfer
    /\ nApplied = 0
    /\ verbose \in BOOLEAN
    /\ Running

\* Ok(None) => return Ok(None)
ReadNone ==
    /\ pc = "read" /\ line < MaxReads
    /\ \E chunk \in Chunks(as_byte(sep), MAX_LINE) :
        /\ LineReader_read(MAX_LINE, chunk)
        /\ lret'.kind = "None"
        /\ Observe(chunk)
    /\ line' = line + 1
    /\ ret' = RetNone
    /\ pc' = "done"
    /\ UNCHANGED <<xferVars, sep, unix, src, dst, nPairs>>

\* Err(error) => return Err(IoError) with an empty preview
ReadIoError ==
    /\ pc = "read" /\ line < MaxReads
    /\ \E chunk \in Chunks(as_byte(sep), MAX_LINE) : LineReader_read_err(MAX_LINE, chunk)
    /\ line' = line + 1
    /\ ret' = RetErr("IoError", line')
    /\ pc' = "failed"
    /\ UNCHANGED <<xferVars, sep, unix, src, dst, nPairs, lastSource, destsSince, nDest>>

\* buffer.len() >= MAX_LINE => return Err(LineOverflow)
ReadOverflow ==
    /\ pc = "read" /\ line < MaxReads
    /\ \E chunk \in Chunks(as_byte(sep), MAX_LINE) :
        /\ LineReader_read(MAX_LINE, chunk)
        /\ lret'.kind = "Some"
        /\ Len(buffer') >= MAX_LINE
        /\ Observe(chunk)
    /\ line' = line + 1
    /\ ret' = RetErr("LineOverflow", line')
    /\ pc' = "failed"
    /\ UNCHANGED <<xferVars, sep, unix, src, dst, nPairs>>

\* Variant: the pending source is looked at before the record is parsed, a
\* ">" record without one fails with NoSourcePath whatever follows the ">".
ReadInvalid_sourceFirst ==
    /\ pc = "read" /\ line < MaxReads
    /\ \E chunk \in Chunks(as_byte(sep), MAX_LINE) :
        /\ LineReader_read(MAX_LINE, chunk)
        /\ lret'.kind = "Some"
        /\ Len(buffer') < MAX_LINE
        /\ ~parse_line(buffer').ok
        /\ Observe(chunk)
    /\ line' = line + 1
    /\ ret' = IF src = None /\ Len(buffer') > 0 /\ Head(buffer') = GT
              THEN RetErr("NoSourcePath", line')
              ELSE RetErr(parse_line(buffer').cause, line')
    /\ pc' = "failed"
    /\ UNCHANGED <<xferVars, sep, unix, src, dst, nPairs>>

\* parse_line(buffer) is Err(cause) => return Err(cause)
ReadInvalid ==
    /\ pc = "read" /\ line < MaxReads
    /\ \E chunk \in Chunks(as_byte(sep), MAX_LINE) :
        /\ LineReader_read(MAX_LINE, chunk)
        /\ lret'.kind = "Some"
        /\ Len(buffer') < MAX_LINE
        /\ ~parse_line(buffer').ok
        /\ Observe(chunk)
    /\ line' = line + 1
    /\ ret' = RetErr(parse_line(buffer').cause, line')
    /\ pc' = "failed"
    /\ UNCHANGED <<xferVars, sep, unix, src, dst, nPairs>>

\* Variant: a pending Source is kept when another Source line arrives.
ReadSource_firstWins ==
    /\ pc = "read" /\ line < MaxReads
    /\ \E chunk \in Chunks(as_byte(sep), MAX_LINE) :
        /\ LineReader_read(MAX_LINE, chunk)
        /\ lret'.kind = "Some"
        /\ Len(buffer') < MAX_LINE
        /\ parse_line(buffer').ok /\ parse_line(buffer').kind = "Source"
        /\ Observe(chunk)
    /\ line' = line + 1
    /\ src' = IF src = None THEN Some(parse_line(buffer').path) ELSE src
    /\ pc' = "read"
    /\ UNCHANGED <<xferVars, sep, unix, dst, ret, nPairs>>

\* Variant: a Source line does not advance the line counter.
ReadSource_noCount ==
    /\ pc = "read" /\ line < MaxReads
    /\ \E chunk \in Chunks(as_byte(sep), MAX_LINE) :
        /\ LineReader_read(MAX_LINE, chunk)
        /\ lret'.kind = "Some"
        /\ Len(buffer') < MAX_LINE
        /\ parse_line(buffer').ok /\ parse_line(buffer').kind = "Source"
        /\ Observe(chunk)
    /\ line' = line
    /\ src' = Some(parse_line(buffer').path)
    /\ pc' = "read"
    /\ UNCHANGED <<xferVars, sep, unix, dst, ret, nPairs>>

\* Ok((PathKind::Source, path)) => self.src.replace(path); continue
ReadSource ==
    /\ pc = "read" /\ line < MaxReads
    /\ \E chunk \in Chunks(as_byte(sep), MAX_LINE) :
        /\ LineReader_read(MAX_LINE, chunk)
        /\ lret'.kind = "Some"
        /\ Len(buffer') < MAX_LINE
        /\ parse_line(buffer').ok /\ parse_line(buffer').kind = "Source"
        /\ Observe(chunk)
    /\ line' = line + 1
    /\ src' = Some(parse_line(buffer').path)
    /\ pc' = "read"
    /\ UNCHANGED <<xferVars, sep, unix, dst, ret, nPairs>>

\* Variant: the pending Source is taken (cleared) when the pair is returned.
ReadDest_oneShot ==
    /\ pc = "read" /\ line < MaxReads
    /\ \E chunk \in Chunks(as_byte(sep), MAX_LINE) :
        /\ LineReader_read(MAX_LINE, chunk)
        /\ lret'.kind = "Some"
        /\ Len(buffer') < MAX_LINE
        /\ parse_line(buffer').ok /\ parse_line(buffer').kind = "Dest"
        /\ Observe(chunk)
    /\ src # None
    /\ line' = line + 1
    /\ dst' = Some(parse_line(buffer').path)
    /\ ret' = RetPair(src[1], dst'[1])
    /\ nPairs' = nPairs + 1
    /\ pc' = "pair"
    /\ src' = None
    /\ UNCHANGED <<xferVars, sep, unix>>

\* Ok((PathKind::Dest, path)) => self.dst.replace(path);
\* (Some(src), Some(dst)) => return Ok(Some((src, dst)))
ReadDest ==
    /\ pc = "read" /\ line < MaxReads
    /\ \E chunk \in Chunks(as_byte(sep), MAX_LINE) :
        /\ LineReader_read(MAX_LINE, chunk)
        /\ lret'.kind = "Some"
        /\ Len(buffer') < MAX_LINE
        /\ parse_line(buffer').ok /\ parse_line(buffer').kind = "Dest"
        /\ Observe(chunk)
    /\ src # None
    /\ line' = line + 1
    /\ dst' = Some(parse_line(buffer').path)
    /\ ret' = RetPair(src[1], dst'[1])
    /\ nPairs' = nPairs + 1
    /\ pc' = "pair"
    /\ UNCHANGED <<xferVars, sep, unix, src>>

\* Variant: a missing Source defaults to the empty path.
ReadNoSource_emptySource ==
    /\ pc = "read" /\ line < MaxReads
    /\ \E chunk \in Chunks(as_byte(sep), MAX_LINE) :
        /\ LineReader_read(MAX_LINE, chunk)
        /\ lret'.kind = "Some"
        /\ Len(buffer') < MAX_LINE
        /\ parse_line(buffer').ok /\ parse_line(buffer').kind = "Dest"
        /\ Observe(chunk)
    /\ src = None
    /\ line' = line + 1
    /\ dst' = Some(parse_line(buffer').path)
    /\ ret' = RetPair(<<>>, dst'[1])
    /\ pc' = "pair"
    /\ UNCHANGED <<xferVars, sep, unix, src, nPairs>>

\* Ok((PathKind::Dest, path)) => self.dst.replace(path);
\* (None, Some(_)) => return Err(NoSourcePath)
ReadNoSource ==
    /\ pc = "read" /\ line < MaxReads
    /\ \E chunk \in Chunks(as_byte(sep), MAX_LINE) :
        /\ LineReader_read(MAX_LINE, chunk)
        /\ lret'.kind = "Some"
        /\ Len(buffer') < MAX_LINE
        /\ parse_line(buffer').ok /\ parse_line(buffer').kind = "Dest"
        /\ Observe(chunk)
    /\ src = None
    /\ line' = line + 1
    /\ dst' = Some(parse_line(buffer').path)
    /\ ret' = RetErr("NoSourcePath", line')
    /\ pc' = "failed"
    /\ UNCHANGED <<xferVars, sep, unix, src, nPairs>>

\* Variant: the body of the loop goes on to the next pair without a call
\* of transfer.
TryMainLoop_skip ==
    /\ pc = "pair"
    /\ pc' = "read"
    /\ UNCHANGED <<xferVars, sep, unix, eof, buffer, src, dst, line, ret, lret,
                   raw, limit, calls, pulled, lastSource, destsSince, nDest, nPairs>>

\* The errors of transfer: the kinds of the two it makes itself and Io for
\* an error of a call passed on by `?`.
TransferErrors == {"NotFound", "Other", "Io"}

\* The body of `while let Some((src, dst)) = path_reader.read()?` for the
\* pair read: transfer is called or not, result is what it returns, error
\* what the body returns with (`?` or return Err), "-" if it does not, and
\* goto where try_main is afterwards.
LoopBody(called, result, error, goto) ==
    /\ pc = "pair"
    /\ IF called
       THEN /\ tsrc' = ret.src
            /\ tdst' = ret.dst
            /\ tret' = result
            /\ nApplied' = nApplied + 1
       ELSE UNCHANGED <<tsrc, tdst, tret, nApplied>>
    /\ err' = error
    /\ pc' = goto
    /\ UNCHANGED <<fs, mode, pre, fallback, sameCopy, tby, verbose, exit, surfaced>>
    /\ UNCHANGED <<input, rest, taken, out>>
    /\ UNCHANGED <<sep, unix, eof, buffer, src, dst, line, ret, lret, raw, limit,
                   calls, pulled, lastSource, destsSince, nDest, nPairs>>

\* Variant: a failed transfer is passed over and the loop goes on.
TryMainFail_goOn ==
    \E e \in TransferErrors : LoopBody(TRUE, e, "-", "read")

\* Variant: a failure of logger.failure() is ignored.
TryMainFailureErr_ignored ==
    /\ verbose
    /\ \E e \in TransferErrors : LoopBody(TRUE, e, e, "aborted")

\* logger.begin (if verbose) is Ok, transfer(src, dst, mode) returns Ok,
\* logger.success (if verbose) is Ok: the loop calls read again.
TryMainLoop == LoopBody(TRUE, "Ok", "-", "read")

\* logger.begin (if verbose) is Ok, transfer returns Err(error),
\* logger.failure (if verbose) is Ok: return Err(error.into()).
TryMainFail ==
    \E e \in TransferErrors : LoopBody(TRUE, e, e, "aborted")

\* logger.begin(src, dst, mode)? with a failing write to standard output:
\* try_main returns the error of the write, transfer is not called.
TryMainBeginErr ==
    /\ verbose
    /\ LoopBody(FALSE, "-", "Stdout", "aborted")

\* transfer returns Ok, logger.success()? with a failing write.
TryMainSuccessErr ==
    /\ verbose
    /\ LoopBody(TRUE, "Ok", "Stdout", "aborted")

\* transfer returns Err(error), logger.failure()? with a failing write:
\* try_main returns the error of the write.
TryMainFailureErr ==
    /\ verbose
    /\ \E e \in TransferErrors : LoopBody(TRUE, e, "Stdout", "aborted")

\* Variant: the process ends with status 0 whatever try_main returned.
main_statusZero ==
    /\ pc \in {"done", "failed", "aborted"}
    /\ exit = "-"
    /\ exit' = "0"
    /\ surfaced' = IF pc = "failed" THEN ret.cause
                   ELSE IF pc = "aborted" THEN err ELSE "-"
    /\ UNCHANGED <<fs, mode, pre, tsrc, tdst, tret, fallback, sameCopy, tby, nApplied,
                   verbose, err, input, rest, taken, out>>
    /\ UNCHANGED <<sep, unix, eof, buffer, src, dst, line, pc, ret, lret, raw, limit,
                   calls, pulled, lastSource, destsSince, nDest, nPairs>>

\* main: try_main has returned; an Err is printed with eprintln! and the
\* process exits with status 1, otherwise main returns (status 0).
main ==
    /\ pc \in {"done", "failed", "aborted"}
    /\ exit = "-"
    /\ exit' = IF pc = "done" THEN "0" ELSE "1"
    /\ surfaced' = IF pc = "failed" THEN ret.cause
                   ELSE IF pc = "aborted" THEN err ELSE "-"
    /\ UNCHANGED <<fs, mode, pre, tsrc, tdst, tret, fallback, sameCopy, tby, nApplied,
                   verbose, err, input, rest, taken, out>>
    /\ UNCHANGED <<sep, unix, eof, buffer, src, dst, line, pc, ret, lret, raw, limit,
                   calls, pulled, lastSource, destsSince, nDest, nPairs>>

Next ==
    \/ ReadNone
    \/ ReadIoError
    \/ ReadOverflow
    \/ ReadInvalid
    \/ ReadSource
    \/ ReadDest
    \/ ReadNoSource
    \/ TryMainLoop
    \/ TryMainFail
    \/ TryMainBeginErr
    \/ TryMainSuccessErr
    \/ TryMainFailureErr
    \/ main

Spec == Init /\ [][Next]_vars

----------------------------------------------------------------------------
(* LineReader::read called on its own, with any max_len, as its tests do.  *)

LineRead ==
    /\ calls < MaxCalls
    /\ \E m \in 0..MaxLimit : \E chunk \in Chunks(as_byte(sep), m) :
        LineReader_read(m, chunk)
    /\ UNCHANGED <<xferVars, sep, unix, src, dst, line, pc, ret,
                   lastSource, destsSince, nDest, nPairs>>

LineReadErr ==
    /\ calls < MaxCalls
    /\ \E m \in 0..MaxLimit : \E chunk \in Chunks(as_byte(sep), m) :
        LineReader_read_err(m, chunk)
    /\ UNCHANGED <<xferVars, sep, unix, src, dst, line, pc, ret,
                   lastSource, destsSince, nDest, nPairs>>

NextLine == LineRead \/ LineReadErr

\* The platform plays no part in the line splitter.
InitLine == Init /\ unix /\ ~verbose

SpecLine == InitLine /\ [][NextLine]_vars

----------------------------------------------------------------------------
(* The readers on a given standard input.                                  *)

\* LineReader::read(m) on what is left of the input, until it returns None.
StreamRead ==
    /\ lret.kind # "None"
    /\ \E m \in 1..MaxLimit :
        LET chunk == read_until(rest, as_byte(sep), m)
        IN  /\ LineReader_read(m, chunk)
            /\ rest' = Advance(rest, Len(chunk))
            /\ taken' = taken \o chunk
    /\ UNCHANGED <<fs, mode, pre, tsrc, tdst, tret, fallback, sameCopy, tby, nApplied,
                   verbose, err, exit, surfaced, input, out>>
    /\ UNCHANGED <<sep, unix, src, dst, line, pc, ret,
                   lastSource, destsSince, nDest, nPairs>>

\* The input is read to its end twice, as it is and with one more
\* terminator after it: by LineReader::read(MAX_LINE) and by the loop of
\* try_main.
ReadTwice ==
    /\ out = <<>>
    /\ LET more == input \o <<as_byte(sep)>>
       IN  out' = << Lines(sep, input, MAX_LINE), Lines(sep, more, MAX_LINE),
                    Results(sep, None, 0, input), Results(sep, None, 0, more) >>
    /\ UNCHANGED <<fs, mode, pre, tsrc, tdst, tret, fallback, sameCopy, tby, nApplied,
                   verbose, err, exit, surfaced, input, rest, taken>>
    /\ UNCHANGED <<sep, unix, eof, buffer, src, dst, line, pc, ret, lret, raw, limit,
                   calls, pulled, lastSource, destsSince, nDest, nPairs>>

\* A given input, nothing read from it yet.
InitInput ==
    /\ InitReader
    /\ fs = EmptyFs
    /\ mode = "Move"
    /\ NoTransfer
    /\ nApplied = 0
    /\ verbose = FALSE
    /\ err = "-"
    /\ exit = "-"
    /\ surfaced = "-"
    /\ input \in SeqsUpTo(MaxInput)
    /\ rest = input
    /\ taken = <<>>
    /\ out = <<>>

\* The platform plays no part in the line splitter.
InitStream == InitInput /\ unix

SpecStream == InitStream /\ [][StreamRead]_vars

SpecTwice == InitInput /\ [][ReadTwice]_vars

----------------------------------------------------------------------------
(* preview_line on a record.                                               *)

\* n times the byte b.
Fill(b, n) == [i \in 1..n |-> b]

\* The records previewed: a run of one byte, then a run of another; a byte
\* is a character of one byte (LT) or an invalid one (XC3).
PreviewLines ==
    { Fill(a, i) \o Fill(b, j) : a \in {LT, XC3}, b \in {LT, XC3},
                                  i \in 0..MaxFill, j \in 0..MaxFill }

\* preview: preview_line(buffer)
PreviewLine ==
    /\ out = <<>>
    /\ out' = <<preview_line(input)>>
    /\ UNCHANGED <<fs, mode, pre, tsrc, tdst, tret, fallback, sameCopy, tby, nApplied,
                   verbose, err, exit, surfaced, input, rest, taken>>
    /\ UNCHANGED <<sep, unix, eof, buffer, src, dst, line, pc, ret, lret, raw, limit,
                   calls, pulled, lastSource, destsSince, nDest, nPairs>>

InitPreview ==
    /\ InitReader
    /\ sep = "Newline"
    /\ unix
    /\ fs = EmptyFs
    /\ mode = "Move"
    /\ NoTransfer
    /\ nApplied = 0
    /\ verbose = FALSE
    /\ err = "-"
    /\ exit = "-"
    /\ surfaced = "-"
    /\ input \in PreviewLines
    /\ rest = <<>>
    /\ taken = <<>>
    /\ out = <<>>

SpecPreview == InitPreview /\ [][PreviewLine]_vars

----------------------------------------------------------------------------
(* transfer called on its own, as each test of src/fs.rs does: a temporary *)
(* directory that starts empty is filled by mkdir and write, and then      *)
(* transfer is called once.                                                *)

\* tests::mkdir: create_dir_all
mkdir ==
    /\ tret = "-"
    /\ \E p \in Paths :
        /\ At(fs, p).type = "Unknown"
        /\ create_all(fs, p).ok
        /\ fs' = create_all(fs, p).fs
    /\ pre' = fs'
    /\ UNCHANGED <<mode, tsrc, tdst, tret, fallback, sameCopy, tby, nApplied>>
    /\ UNCHANGED <<verbose, err, exit, surfaced, input, rest, taken, out>>
    /\ UNCHANGED <<sep, unix, eof, buffer, src, dst, line, pc, ret, lret, raw, limit,
                   calls, pulled, lastSource, destsSince, nDest, nPairs>>

\* tests::write: write_str
write ==
    /\ tret = "-"
    /\ \E p \in Paths, data \in Contents :
        /\ At(fs, Parent(p)).type = "Dir"
        /\ At(fs, p).type = "Unknown"
        /\ fs' = [fs EXCEPT ![p] = File(data)]
    /\ pre' = fs'
    /\ UNCHANGED <<mode, tsrc, tdst, tret, fallback, sameCopy, tby, nApplied>>
    /\ UNCHANGED <<verbose, err, exit, surfaced, input, rest, taken, out>>
    /\ UNCHANGED <<sep, unix, eof, buffer, src, dst, line, pc, ret, lret, raw, limit,
                   calls, pulled, lastSource, destsSince, nDest, nPairs>>

\* What the file system can choose in transfer(s, d, mode): whether s and d
\* are on different devices (an entry is on the device it is on), and the
\* order in which it lists a directory.
Devices(f, s, d) ==
    IF mode = "Move" /\ s # d /\ At(f, s).type # "Unknown" THEN BOOLEAN ELSE {FALSE}

Listings(f, s) == IF At(f, s).type = "Dir" THEN Walks ELSE {Walk}

\* transfer(s, d, mode)
Transfer ==
    /\ tret = "-"
    /\ \E s \in Paths, d \in Paths :
        /\ Fits(fs, s, d)
        /\ \E xdev \in Devices(fs, s, d), walk \in Listings(fs, s) :
            LET r == transfer(fs, s, d, mode, xdev, walk)
            IN  /\ fs' = r.fs
                /\ tret' = r.ret
                /\ fallback' = r.fallback
                /\ sameCopy' = r.same
                /\ tby' = r.by
        /\ tsrc' = s
        /\ tdst' = d
    /\ pre' = fs
    /\ UNCHANGED <<mode, nApplied, verbose, err, exit, surfaced>>
    /\ UNCHANGED <<input, rest, taken, out>>
    /\ UNCHANGED <<sep, unix, eof, buffer, src, dst, line, pc, ret, lret, raw, limit,
                   calls, pulled, lastSource, destsSince, nDest, nPairs>>

NextFs == mkdir \/ write \/ Transfer

InitFs ==
    /\ InitReader
    /\ sep = "Newline"
    /\ unix
    /\ fs = EmptyFs
    /\ mode \in TransferModes
    /\ NoTransfer
    /\ nApplied = 0
    /\ verbose = FALSE
    /\ Running

SpecFs == InitFs /\ [][NextFs]_vars

----------------------------------------------------------------------------
(* A run of the program on a file system: mkdir and write fill the working *)
(* directory, then try_main reads records and calls transfer for each pair. *)
(* The records are given as parse_line returns them, a Source or a Dest    *)
(* with its path, or as the error of a record that fails.                  *)

\* The paths the records of a run name: three entries none of which is
\* above another.
RunPaths == { <<"a", "c">>, <<"a", "d">>, <<"b">> }

\* The causes of PathReader::read's errors for a record (NoSourcePath apart).
RecordErrors == {"IoError", "LineOverflow", "EmptyLine", "InvalidPrefix",
                 "EmptyPath", "InvalidEncoding"}

Entries(f) == Cardinality({p \in Paths : f[p].type # "Unknown"})

UnchangedByRead ==
    UNCHANGED <<fs, mode, pre, tsrc, tdst, tret, fallback, sameCopy, tby, nApplied,
                verbose, err, exit, surfaced, input, rest, taken, out,
                sep, unix, eof, buffer, lret, raw, limit, calls, pulled>>

\* The working directory before the program starts.
RunSetup ==
    /\ line = 0
    /\ Entries(fs) < MaxEntries
    /\ (mkdir \/ write)

\* Ok(None) => return Ok(None)
RunNone ==
    /\ pc = "read" /\ line < MaxReads
    /\ line' = line + 1
    /\ ret' = RetNone
    /\ pc' = "done"
    /\ UNCHANGED <<src, dst, lastSource, destsSince, nDest, nPairs>>
    /\ UnchangedByRead

\* Variant: the last transfer is undone when a record fails.
RunInvalid_rollback ==
    /\ pc = "read" /\ line < MaxReads
    /\ line' = line + 1
    /\ \E cause \in RecordErrors : ret' = RetErr(cause, line')
    /\ pc' = "failed"
    /\ fs' = pre
    /\ UNCHANGED <<src, dst, lastSource, destsSince, nDest, nPairs>>
    /\ UNCHANGED <<mode, pre, tsrc, tdst, tret, fallback, sameCopy, tby, nApplied,
                   verbose, err, exit, surfaced, input, rest, taken, out,
                   sep, unix, eof, buffer, lret, raw, limit, calls, pulled>>

\* The record cannot be read, is too long or does not parse: return Err
RunInvalid ==
    /\ pc = "read" /\ line < MaxReads
    /\ line' = line + 1
    /\ \E cause \in RecordErrors : ret' = RetErr(cause, line')
    /\ pc' = "failed"
    /\ UNCHANGED <<src, dst, lastSource, destsSince, nDest, nPairs>>
    /\ UnchangedByRead

\* Ok((PathKind::Source, path)) => self.src.replace(path); continue
RunSource ==
    /\ pc = "read" /\ line < MaxReads
    /\ line' = line + 1
    /\ \E p \in RunPaths :
        /\ src' = Some(p)
        /\ lastSource' = Some(p)
    /\ destsSince' = 0
    /\ UNCHANGED <<dst, pc, ret, nDest, nPairs>>
    /\ UnchangedByRead

\* Variant: the pending Source is taken (cleared) when the pair is returned.
RunDest_oneShot ==
    /\ pc = "read" /\ line < MaxReads
    /\ src # None
    /\ line' = line + 1
    /\ \E d \in RunPaths :
        /\ Fits(fs, src[1], d)
        /\ dst' = Some(d)
        /\ ret' = RetPair(src[1], d)
    /\ src' = None
    /\ destsSince' = destsSince + 1
    /\ nDest' = nDest + 1
    /\ nPairs' = nPairs + 1
    /\ pc' = "pair"
    /\ UNCHANGED lastSource
    /\ UnchangedByRead

\* Ok((PathKind::Dest, path)) => self.dst.replace(path);
\* (Some(src), Some(dst)) => return Ok(Some((src, dst)))
RunDest ==
    /\ pc = "read" /\ line < MaxReads
    /\ src # None
    /\ line' = line + 1
    /\ \E d \in RunPaths :
        /\ Fits(fs, src[1], d)
        /\ dst' = Some(d)
        /\ ret' = RetPair(src[1], d)
    /\ destsSince' = destsSince + 1
    /\ nDest' = nDest + 1
    /\ nPairs' = nPairs + 1
    /\ pc' = "pair"
    /\ UNCHANGED <<src, lastSource>>
    /\ UnchangedByRead

\* (None, Some(_)) => return Err(NoSourcePath)
RunNoSource ==
    /\ pc = "read" /\ line < MaxReads
    /\ src = None
    /\ line' = line + 1
    /\ \E d \in RunPaths : dst' = Some(d)
    /\ ret' = RetErr("NoSourcePath", line')
    /\ destsSince' = destsSince + 1
    /\ nDest' = nDest + 1
    /\ pc' = "failed"
    /\ UNCHANGED <<src, lastSource, nPairs>>
    /\ UnchangedByRead

\* Variant: a pair whose source is not there is passed over.
RunTransfer_skipMissing ==
    /\ pc = "pair"
    /\ \E xdev \in Devices(fs, ret.src, ret.dst), walk \in Listings(fs, ret.src) :
        LET r == transfer(fs, ret.src, ret.dst, mode, xdev, walk)
        IN  /\ fs' = r.fs
            /\ tret' = IF r.ret = "NotFound" THEN "Ok" ELSE r.ret
            /\ fallback' = r.fallback
            /\ sameCopy' = r.same
            /\ tby' = r.by
            /\ err' = IF r.ret \in {"Ok", "NotFound"} THEN "-" ELSE r.ret
            /\ pc' = IF r.ret \in {"Ok", "NotFound"} THEN "read" ELSE "aborted"
    /\ tsrc' = ret.src
    /\ tdst' = ret.dst
    /\ pre' = fs
    /\ nApplied' = nApplied + 1
    /\ UNCHANGED <<mode, verbose, exit, surfaced, input, rest, taken, out>>
    /\ UNCHANGED <<sep, unix, eof, buffer, src, dst, line, ret, lret, raw, limit,
                   calls, pulled, lastSource, destsSince, nDest, nPairs>>

\* match transfer(src, dst, mode): Ok(()) goes on to the next read,
\* Err(error) => return Err(error.into()).  cli.verbose is off.
RunTransfer ==
    /\ pc = "pair"
    /\ \E xdev \in Devices(fs, ret.src, ret.dst), walk \in Listings(fs, ret.src) :
        LET r == transfer(fs, ret.src, ret.dst, mode, xdev, walk)
        IN  /\ fs' = r.fs
            /\ tret' = r.ret
            /\ fallback' = r.fallback
            /\ sameCopy' = r.same
            /\ tby' = r.by
            /\ err' = IF r.ret = "Ok" THEN "-" ELSE r.ret
            /\ pc' = IF r.ret = "Ok" THEN "read" ELSE "aborted"
    /\ tsrc' = ret.src
    /\ tdst' = ret.dst
    /\ pre' = fs
    /\ nApplied' = nApplied + 1
    /\ UNCHANGED <<mode, verbose, exit, surfaced, input, rest, taken, out>>
    /\ UNCHANGED <<sep, unix, eof, buffer, src, dst, line, ret, lret, raw, limit,
                   calls, pulled, lastSource, destsSince, nDest, nPairs>>

NextRun ==
    \/ RunSetup
    \/ RunNone
    \/ RunInvalid
    \/ RunSource
    \/ RunDest
    \/ RunNoSource
    \/ RunTransfer
    \/ main

InitRun ==
    /\ InitReader
    /\ sep = "Newline"
    /\ unix
    /\ fs = EmptyFs
    /\ mode \in TransferModes
    /\ NoTransfer
    /\ nApplied = 0
    /\ verbose = FALSE
    /\ Running

SpecRun == InitRun /\ [][NextRun]_vars

----------------------------------------------------------------------------
(* The program on a given, finite standard input.  The file system is the  *)
(* environment, as in Spec: transfer returns, with any of its results.     *)

\* One iteration of the loop of PathReader::read on what is left of the
\* input, read_until returning Ok.
LiveIteration ==
    /\ pc = "read"
    /\ \E it \in {PathReader_iteration(sep, src, rest)} :
           /\ LineReader_read(MAX_LINE, it.chunk)
           /\ Observe(it.chunk)
           /\ rest' = Advance(rest, Len(it.chunk))
           /\ taken' = taken \o it.chunk
           /\ line' = line + 1
           /\ pc' = it.pc
           /\ src' = it.src
           /\ dst' = IF it.pc = "pair" \/ it.ret = "NoSourcePath"
                     THEN Some(parse_line(buffer').path) ELSE dst
           /\ ret' = IF it.pc = "done" THEN RetNone
                     ELSE IF it.pc = "failed" THEN RetErr(it.ret, line')
                     ELSE IF it.pc = "pair" THEN RetPair(it.src[1], it.ret)
                     ELSE ret
           /\ nPairs' = IF it.pc = "pair" THEN nPairs + 1 ELSE nPairs
    /\ UNCHANGED <<fs, mode, pre, tsrc, tdst, tret, fallback, sameCopy, tby, nApplied,
                   verbose, err, exit, surfaced, input, out, sep, unix>>

\* read_until returns Err before the input is exhausted: Err(IoError).
LiveIoError ==
    /\ pc = "read"
    /\ Len(rest) > 0
    /\ LineReader_read_err(MAX_LINE, <<>>)
    /\ line' = line + 1
    /\ ret' = RetErr("IoError", line')
    /\ pc' = "failed"
    /\ UNCHANGED <<xferVars, sep, unix, src, dst, nPairs, lastSource, destsSince, nDest>>

\* The inputs of at most n bytes made of "<", ">", "\n" and "\0".
RECURSIVE LiveInputs(_)
LiveInputs(n) ==
    IF n = 0 THEN {<<>>}
    ELSE LiveInputs(n - 1)
         \cup {Append(i, b) : i \in {j \in LiveInputs(n - 1) : Len(j) = n - 1},
                              b \in {LT, GT, LF, NUL}}

\* The standard inputs of SpecLive, worked out once.
LiveInputSet == LiveInputs(MaxLive)

\* The process is started with a standard input: try_main comes to its loop.
Stdin ==
    /\ pc = "start"
    /\ input' \in LiveInputSet
    /\ rest' = input'
    /\ pc' = "read"
    /\ UNCHANGED <<fs, mode, pre, tsrc, tdst, tret, fallback, sameCopy, tby, nApplied,
                   verbose, err, exit, surfaced, taken, out>>
    /\ UNCHANGED <<sep, unix, eof, buffer, src, dst, line, ret, lret, raw, limit,
                   calls, pulled, lastSource, destsSince, nDest, nPairs>>

NextLive ==
    \/ Stdin
    \/ LiveIteration
    \/ LiveIoError
    \/ TryMainLoop
    \/ TryMainFail
    \/ TryMainBeginErr
    \/ TryMainSuccessErr
    \/ TryMainFailureErr
    \/ main

\* The process before it is started.  cli.verbose is on: what the loop can
\* do with it off it can do with it on.  The target is Unix.
InitLive ==
    /\ sep \in Separators
    /\ unix = TRUE
    /\ eof = FALSE
    /\ buffer = <<>>
    /\ src = None
    /\ dst = None
    /\ line = 0
    /\ pc = "start"
    /\ ret = RetStart
    /\ lret = [kind |-> "start", length |-> 0]
    /\ raw = <<>>
    /\ limit = 0
    /\ calls = 0
    /\ pulled = 0
    /\ lastSource = None
    /\ destsSince = 0
    /\ nDest = 0
    /\ nPairs = 0
    /\ fs = EmptyFs
    /\ mode = "Move"
    /\ NoTransfer
    /\ nApplied = 0
    /\ verbose = TRUE
    /\ Running

\* The process is sequential and every call returns, a call of transfer
\* included: a step that can be taken is taken.
SpecLive == InitLive /\ [][NextLive]_vars /\ WF_vars(NextLive)

----------------------------------------------------------------------------
(* Properties of the instruction parser (specification Spec).              *)

\* The parser refused the last record for its size.
Overflowed == pc = "failed" /\ ret.cause = "LineOverflow"

\* The step handed the parser a record that it did not refuse for its size.
TookRecord == pc = "read" /\ lret'.kind = "Some" /\ ~Overflowed'

\* C1: fan-out.  Once a Source line has been accepted, every Dest line that
\* follows returns a pair made of that Source path and the Dest line's own
\* payload, and the Source stays pending, so n Dest lines in a row give n
\* pairs with the same source, in input order; at the end of the stream the
\* call returns None.
C1_FanOut ==
    [][ /\ (TookRecord /\ lastSource # None /\ IsDestLine(Rec'))
            => /\ pc' = "pair"
               /\ ret' = RetPair(lastSource[1], Payload(Rec'))
               /\ src' = lastSource
        /\ (pc = "read" /\ lret'.kind = "None")
            => (pc' = "done" /\ ret' = RetNone) ]_vars

\* Two Dest lines in a row after one Source line: the second pair is out.
C1_Witness == pc = "pair" /\ destsSince = 2 /\ nPairs = 2

\* C2: last Source wins.  A Source line replaces the pending Source and
\* returns nothing; a pair always carries the payload of the latest Source
\* line of the input.
C2_LastSourceWins ==
    /\ [][ (TookRecord /\ IsSourceLine(Rec'))
            => /\ pc' = "read"
               /\ src' = Some(Payload(Rec'))
               /\ ret' = ret
               /\ nPairs' = nPairs ]_vars
    /\ [](pc = "pair" => Some(ret.src) = lastSource)

\* Two Source lines, then a Dest line: the pair is out.
C2_Witness == pc = "pair" /\ pulled = 3 /\ nDest = 1

\* C3: no pair before a Source line.  A Dest line met while no Source line
\* has been accepted fails with NoSourcePath and the number of that record.
C3_NoSourcePath ==
    /\ pc = "pair" => lastSource # None
    /\ (lret.kind = "Some" /\ ~Overflowed /\ lastSource = None /\ IsDestLine(Rec))
        => (pc = "failed" /\ ret = RetErr("NoSourcePath", pulled))
    /\ (pc = "failed" /\ ret.cause = "NoSourcePath")
        => (lastSource = None /\ IsDestLine(Rec))

C3_Witness ==
    pc = "failed" /\ ret = RetErr("NoSourcePath", 1) /\ IsDestLine(Rec)

\* C4: one pair per Dest line.  While no error has occurred the pairs
\* returned are as many as the Dest lines read; a pair is returned for a
\* Dest line, its destination is that line without its first byte, and
\* neither path is empty.
C4_PairPerDest ==
    /\ pc \in {"read", "pair", "done"} => nPairs = nDest
    /\ pc = "pair"
        => /\ ret.kind = "pair"
           /\ IsDestLine(Rec)
           /\ ret.dst = Payload(Rec)
           /\ Len(ret.src) > 0
           /\ Len(ret.dst) > 0

\* The input is over with two pairs returned.
C4_Witness == pc = "done" /\ nPairs = 2 /\ nDest = 2

\* C5: every error carries the 1-based number of the record it is about,
\* Source lines that returned nothing included.
C5_ErrorLine ==
    pc = "failed" => (ret.kind = "err" /\ ret.line = pulled /\ ret.line >= 1)

\* An error on the third record, after two Source lines.
C5_Witness == pc = "failed" /\ ret.line = 3 /\ nPairs = 0

\* C6: classification of a record the parser did not refuse for its size.
\* It is accepted iff it is "<" or ">" followed by a non-empty decodable
\* payload; the other records fail with EmptyLine, InvalidPrefix, EmptyPath
\* or InvalidEncoding.
C6_Classification ==
    (lret.kind = "Some" /\ ~Overflowed) =>
        LET accepted == pc \in {"read", "pair", "aborted"}
                        \/ (pc = "failed" /\ ret.cause = "NoSourcePath")
            cause == IF pc = "failed" THEN ret.cause ELSE "-"
            prefixed == Len(Rec) >= 1 /\ Rec[1] \in {LT, GT}
        IN  /\ accepted <=> (prefixed /\ Len(Rec) >= 2 /\ Decodable(Payload(Rec)))
            /\ cause = "EmptyLine" <=> Len(Rec) = 0
            /\ cause = "InvalidPrefix" <=> (Len(Rec) >= 1 /\ ~prefixed)
            /\ cause = "EmptyPath" <=> (prefixed /\ Len(Rec) = 1)
            /\ cause = "InvalidEncoding"
                <=> (prefixed /\ Len(Rec) >= 2 /\ ~Decodable(Payload(Rec)))

\* A blank line after an accepted instruction ends the run with EmptyLine.
C6_Witness ==
    pc = "failed" /\ ret.cause = "EmptyLine" /\ ret.line = 2 /\ Len(raw) = 1

\* C10, as claimed: a record is refused with LineOverflow iff the line
\* splitter took MAX_LINE or more bytes from the stream for it, counted
\* before the terminator is stripped.
C10_OverflowOnConsumed ==
    /\ (lret.kind = "Some" /\ lret.length >= MAX_LINE) => Overflowed
    /\ Overflowed => lret.length >= MAX_LINE

----------------------------------------------------------------------------
(* Properties of the line splitter (specification SpecLine).               *)

\* C7: under Newline a record is its raw bytes without a trailing "\n" and
\* without one "\r" right before that "\n"; with no "\n" at the end nothing
\* is removed, a trailing "\r" included.
C7_NewlineStrip ==
    (sep = "Newline" /\ lret.kind = "Some") =>
        /\ EndsWith(raw, <<CR, LF>>) => raw = buffer \o <<CR, LF>>
        /\ (EndsWith(raw, <<LF>>) /\ ~EndsWith(raw, <<CR, LF>>))
            => raw = buffer \o <<LF>>
        /\ ~EndsWith(raw, <<LF>>) => buffer = raw

\* A record that ends in "\r" with no "\n" after it keeps the "\r".
C7_Witness ==
    sep = "Newline" /\ lret.kind = "Some" /\ EndsWith(raw, <<CR>>) /\ buffer = raw

\* C8: under Null a record is its raw bytes without one trailing "\0";
\* "\n", "\r" and "\r\n" stay.
C8_NullStrip ==
    (sep = "Null" /\ lret.kind = "Some") =>
        /\ EndsWith(raw, <<NUL>>) => raw = buffer \o <<NUL>>
        /\ ~EndsWith(raw, <<NUL>>) => buffer = raw

C8_Witness ==
    sep = "Null" /\ lret.kind = "Some" /\ raw = <<CR, NUL>> /\ buffer = <<CR>>

\* C9: called with max_len >= 1, LineReader::read returns None only when no
\* byte could be read because the stream is exhausted; any byte read, a lone
\* terminator included, gives Some.
C9_NoneOnlyAtEof ==
    /\ (limit >= 1 /\ lret.kind = "None") => (Len(raw) = 0 /\ eof)
    /\ (Len(raw) > 0 /\ lret.kind # "Err") => lret.kind = "Some"

\* A lone terminator was read and came back as the empty record.
C9_Witness ==
    lret.kind = "Some" /\ raw = <<as_byte(sep)>> /\ Len(buffer) = 0 /\ ~eof

----------------------------------------------------------------------------
(* Properties of the transfer engine (specification SpecFs).  pre is the   *)
(* file system when transfer(tsrc, tdst, mode) was called, fs the one it   *)
(* left, tret what it returned.                                            *)

\* transfer has been called and has returned.
Called == tret # "-"

\* p is q or a directory on the way to q.
Above(p, q) == Len(p) <= Len(q) /\ \A i \in 1..Len(p) : p[i] = q[i]

\* The path below d that corresponds to q below s.
Moved(s, d, q) == d \o SubSeq(q, Len(s) + 1, Len(q))

\* The entry of a file system at any path: nothing outside Paths.
Entry(f, p) == IF p \in Paths THEN f[p] ELSE [type |-> "Unknown", data |-> ""]

\* Some directory on the way to p (p apart) is missing in f.
UnderMissing(f, p) ==
    \E k \in 1..(Len(p) - 1) : f[SubSeq(p, 1, k)].type = "Unknown"

\* C11: when the source path is missing, transfer returns NotFound, for any
\* destination and in both modes, and the file system is exactly as before.
C11_MissingSource ==
    (Called /\ pre[tsrc].type = "Unknown") => (tret = "NotFound" /\ fs = pre)

C11_Witness ==
    /\ tret = "NotFound" /\ mode = "Copy"
    /\ pre[tdst].type = "Unknown" /\ UnderMissing(pre, tdst)

\* C12: a file onto an existing directory, or a directory onto an existing
\* file, fails with the type-conflict error (kind Other) in both modes, and
\* the file system is exactly as before.
C12_TypeConflict ==
    (Called /\ {pre[tsrc].type, pre[tdst].type} = {"File", "Dir"})
        => (tret = "Other" /\ fs = pre)

C12_Witness ==
    /\ tret = "Other" /\ mode = "Copy"
    /\ pre[tsrc].type = "Dir" /\ pre[tdst].type = "File"
    /\ \E q \in Paths : q # tsrc /\ Above(tsrc, q) /\ pre[q].type = "File"

\* C13: moving an existing file or directory onto itself returns Ok, leaves
\* every entry as it was, and fs::rename did not fail (no fallback).
C13_SelfMove ==
    (Called /\ mode = "Move" /\ tsrc = tdst /\ pre[tsrc].type # "Unknown")
        => (tret = "Ok" /\ fs = pre /\ ~fallback)

C13_Witness ==
    /\ tret = "Ok" /\ mode = "Move" /\ tsrc = tdst
    /\ pre[tsrc].type = "Dir"
    /\ \E q \in Paths : q # tsrc /\ Above(tsrc, q) /\ pre[q].type = "File"

\* C14: no low-level copy is ever given one entry as both ends; copying an
\* existing file or directory onto itself returns Ok and leaves every entry
\* as it was.
C14_SelfCopy ==
    /\ ~sameCopy
    /\ (Called /\ mode = "Copy" /\ tsrc = tdst /\ pre[tsrc].type # "Unknown")
        => (tret = "Ok" /\ fs = pre)

C14_Witness ==
    /\ tret = "Ok" /\ mode = "Copy" /\ tsrc = tdst
    /\ pre[tsrc].type = "File" /\ fs[tsrc].data = "1"

\* No component of p is a file in f: the directories down to p can be made.
Creatable(f, p) == \A k \in 1..Len(p) : f[SubSeq(p, 1, k)].type # "File"

\* Everything that f has at or below s, d has at the corresponding path of g.
Holds(g, d, f, s) ==
    \A q \in Paths :
        (Above(s, q) /\ f[q].type # "Unknown") => Entry(g, Moved(s, d, q)) = f[q]

\* Nothing exists at or below s in f.
Gone(f, s) == \A q \in Paths : Above(s, q) => f[q].type = "Unknown"

\* C15: moving a directory onto a path that does not exist (and can be
\* created) succeeds; afterwards the destination is a directory holding the
\* whole former subtree of the source, and nothing is left at the source.
C15_MoveDirToMissing ==
    (/\ Called /\ mode = "Move"
     /\ pre[tsrc].type = "Dir" /\ pre[tdst].type = "Unknown" /\ Creatable(pre, tdst))
        => /\ tret = "Ok"
           /\ fs[tdst].type = "Dir"
           /\ Holds(fs, tdst, pre, tsrc)
           /\ Gone(fs, tsrc)

\* The same, for a destination that is not inside the source.
C15_Apart ==
    (/\ Called /\ mode = "Move" /\ ~Above(tsrc, tdst)
     /\ pre[tsrc].type = "Dir" /\ pre[tdst].type = "Unknown" /\ Creatable(pre, tdst))
        => /\ tret = "Ok"
           /\ fs[tdst].type = "Dir"
           /\ Holds(fs, tdst, pre, tsrc)
           /\ Gone(fs, tsrc)

\* The directory d has an entry in f.
NonEmpty(f, d) == \E q \in Paths : q # d /\ Above(d, q) /\ f[q].type # "Unknown"

\* The merge of the subtree of s into the directory d, from f to g: a file
\* of d that s has no file for is unchanged, and every file of s is in d.
Merged(g, d, f, s) ==
    /\ \A q \in Paths :
        (/\ q # d /\ Above(d, q) /\ f[q].type = "File"
         /\ Entry(f, Moved(d, s, q)).type # "File") => g[q] = f[q]
    /\ \A q \in Paths :
        (q # s /\ Above(s, q) /\ f[q].type = "File") => Entry(g, Moved(s, d, q)) = f[q]

\* C16: after a successful Move or Copy of a directory onto another,
\* existing and non-empty directory, at every level the files that only
\* the destination had are unchanged, the files that both had have the
\* content of the source, and the files that only the source had are
\* added; Copy leaves the subtree of the source as it was, Move removes
\* the source directory.
C16_Merge ==
    (/\ Called /\ tret = "Ok" /\ tsrc # tdst
     /\ pre[tsrc].type = "Dir" /\ pre[tdst].type = "Dir" /\ NonEmpty(pre, tdst))
        => /\ Merged(fs, tdst, pre, tsrc)
           /\ (mode = "Copy") => \A q \in Paths : Above(tsrc, q) => fs[q] = pre[q]
           /\ (mode = "Move") => fs[tsrc].type = "Unknown"

\* The same, for a source and a destination neither of which is inside the
\* other.
C16_Apart ==
    (/\ Called /\ tret = "Ok" /\ ~Above(tsrc, tdst) /\ ~Above(tdst, tsrc)
     /\ pre[tsrc].type = "Dir" /\ pre[tdst].type = "Dir" /\ NonEmpty(pre, tdst))
        => /\ Merged(fs, tdst, pre, tsrc)
           /\ (mode = "Copy") => \A q \in Paths : Above(tsrc, q) => fs[q] = pre[q]
           /\ (mode = "Move") => fs[tsrc].type = "Unknown"

\* C17: a successful transfer of a file onto another file or onto a missing
\* path leaves at the destination a file with the content the source had
\* (an existing destination is overwritten); in Copy mode the source is
\* still there, unchanged.
C17_FileContent ==
    (/\ Called /\ tret = "Ok" /\ tsrc # tdst
     /\ pre[tsrc].type = "File" /\ pre[tdst].type # "Dir")
        => /\ fs[tdst] = pre[tsrc]
           /\ (mode = "Copy") => fs[tsrc] = pre[tsrc]

C17_Witness ==
    /\ tret = "Ok" /\ mode = "Copy" /\ tsrc # tdst
    /\ pre[tsrc] = File("1") /\ pre[tdst] = File("2")
    /\ fs[tsrc] = File("1") /\ fs[tdst] = File("1")

\* C18 as stated: whenever transfer in Move mode returns Ok, nothing exists
\* at the source path afterwards.
C18_SourceGone ==
    (Called /\ mode = "Move" /\ tret = "Ok") => fs[tsrc].type = "Unknown"

\* C18, amended: whenever transfer in Move mode returns Ok and the source
\* and the destination are not the same entry, nothing exists at the source
\* path afterwards (a self-move returns Ok and keeps the entry, C13).
C18_SourceGoneUnlessSelf ==
    (Called /\ mode = "Move" /\ tret = "Ok" /\ tsrc # tdst)
        => Gone(fs, tsrc)

C18_Witness ==
    /\ tret = "Ok" /\ mode = "Move" /\ tsrc # tdst /\ fallback
    /\ pre[tsrc].type = "File" /\ pre[tdst].type = "File"
    /\ fs[tsrc].type = "Unknown"

\* C19: a transfer to a missing destination below directories that do not
\* exist (no component being a file) does not fail; unless the move took
\* the source, destination included, away, every directory on the way to
\* the destination exists afterwards and, for a directory source, so does
\* the destination directory.
C19_ParentsCreated ==
    (/\ Called /\ pre[tsrc].type # "Unknown"
     /\ pre[tdst].type = "Unknown" /\ UnderMissing(pre, tdst) /\ Creatable(pre, tdst))
        => /\ tret = "Ok"
           /\ ~(mode = "Move" /\ Above(tsrc, tdst)) =>
                /\ \A k \in 1..(Len(tdst) - 1) : fs[SubSeq(tdst, 1, k)].type = "Dir"
                /\ fs[tdst].type = pre[tsrc].type

C19_Witness ==
    /\ tret = "Ok" /\ pre[tsrc].type = "File" /\ Len(tdst) = 3
    /\ pre[SubSeq(tdst, 1, 1)].type = "Unknown"
    /\ fs[SubSeq(tdst, 1, 2)].type = "Dir" /\ fs[tdst].type = "File"

----------------------------------------------------------------------------
(* Properties of the driver loop (specification Spec).                     *)

\* C20: transfers are made one at a time in the order of the Dest lines of
\* the input.  The k-th call of transfer is made for the k-th Dest line,
\* with that line's path and the path of the Source line governing it, and
\* it has returned before the next record is taken from the input: no
\* record is taken while a Dest line has had no transfer.
C20_InOrder ==
    [][ /\ (nApplied' # nApplied) =>
            /\ pc = "pair"
            /\ nApplied' = nApplied + 1
            /\ nApplied' = nDest
            /\ IsDestLine(Rec) /\ tdst' = Payload(Rec)
            /\ lastSource # None /\ tsrc' = lastSource[1]
            /\ tret' # "-"
        /\ (pulled' # pulled) => nApplied = nDest
      ]_vars

C20_Witness ==
    /\ pc = "read" /\ nApplied = 2 /\ nDest = 2 /\ tret = "Ok"
    /\ IsDestLine(Rec) /\ tdst = Payload(Rec)

\* try_main has met an error: a record that does not parse or cannot be
\* read, a transfer that returned an error, or an error of the logger.
Stopped == pc = "failed" \/ tret \notin {"-", "Ok"} \/ err # "-"

\* C21: processing is fail-fast.  Once a record failed to parse or a transfer
\* returned an error, no further record is taken from the input and no
\* further transfer is made, and the process can only end with status 1;
\* it ends with status 0 only when the input was exhausted without error.
C21_FailFast ==
    [][ /\ (Stopped \/ exit # "-") =>
            /\ pulled' = pulled
            /\ nApplied' = nApplied
            /\ nPairs' = nPairs
            /\ Stopped'
        /\ (exit' # exit) =>
            /\ exit = "-"
            /\ exit' = IF Stopped THEN "1" ELSE "0"
            /\ ~Stopped => pc = "done"
      ]_vars

C21_Witness ==
    /\ exit = "1" /\ surfaced = "NotFound" /\ tret = "NotFound"
    /\ nApplied = 2 /\ pulled = 3 /\ ~eof

\* C22, as claimed: what LineReader::read hands to its caller tells the
\* number of bytes taken from the stream for the record, counted before the
\* terminator is stripped.  read returns the stripped slice: the caller has
\* its length and nothing else.
C22_ReturnsConsumed ==
    lret.kind = "Some" => Len(buffer) = Len(raw)

----------------------------------------------------------------------------
(* Properties of the readers on a given input (specification SpecStream).  *)

\* C23: a call of LineReader::read with limit max_len takes at most max_len
\* bytes from the stream and no byte after the first terminator; it stops
\* short of the limit only at a terminator or at the end of the stream; the
\* bytes it leaves are delivered by the calls that follow: the chunks taken
\* so far, put together, and the bytes not yet delivered are the input, and
\* when the stream is exhausted the chunks put together are the input.
C23_Restartable ==
    /\ Len(raw) <= limit
    /\ \A i \in 1..(Len(raw) - 1) : raw[i] # as_byte(sep)
    /\ (calls > 0 /\ Len(raw) < limit /\ ~EndsWith(raw, <<as_byte(sep)>>)) => rest = <<>>
    /\ taken \o rest = input
    /\ lret.kind = "None" => taken = input

\* An over-long line: a read that stopped at its limit, and the read after
\* it that delivered what followed.
C23_Witness ==
    /\ calls = 2 /\ Len(taken) = 4 /\ Len(raw) = 1 /\ limit = 3
    /\ \A i \in 1..3 : taken[i] # as_byte(sep)
    /\ taken = input

\* The input has a last record that no terminator follows.
Unterminated == Len(input) > 0 /\ Last(input) # as_byte(sep)

\* The last record of the input: the bytes after the last terminator.
RECURSIVE LastRecord(_)
LastRecord(s) ==
    IF Len(s) = 0 \/ Last(s) = as_byte(sep) THEN <<>>
    ELSE Append(LastRecord(Pop(s)), Last(s))

\* C24, as claimed: for any input the records, and the pairs and errors,
\* are the same whether or not a terminator follows the last record.
C24_FinalTerminator ==
    (out # <<>> /\ Unterminated) => (out[1] = out[2] /\ out[3] = out[4])

\* C24, amended: a terminator after a last record that is shorter than
\* MAX_LINE and, under Newline, does not end in "\r" adds no record and
\* changes no record, pair or error; a terminator right after a
\* terminator, or at the start of the input, gives an empty record.
C24_FinalTerminatorNoCr ==
    /\ (/\ out # <<>> /\ Unterminated
        /\ Len(LastRecord(input)) < MAX_LINE
        /\ ~(sep = "Newline" /\ Last(input) = CR))
        => (out[1] = out[2] /\ out[3] = out[4])
    /\ (out # <<>> /\ ~Unterminated) =>
            /\ Len(out[2]) = Len(out[1]) + 1
            /\ Last(out[2]) = <<>>
            /\ \A i \in 1..Len(out[1]) : out[2][i] = out[1][i]

C24_Witness ==
    /\ out # <<>> /\ Len(input) = 4 /\ Unterminated /\ input[2] = as_byte(sep)
    /\ Len(out[1]) = 2 /\ out[3][1].kind = "err"

----------------------------------------------------------------------------
(* More properties of transfer (specification SpecFs).                     *)

\* fs::rename(tsrc, tdst) had to fail in the last call: a directory cannot
\* replace another directory that has entries (ENOTEMPTY).
RenameRefused ==
    /\ pre[tsrc].type = "Dir" /\ pre[tdst].type = "Dir"
    /\ ~Above(tsrc, tdst) /\ ~Above(tdst, tsrc)
    /\ \E q \in Paths : q # tdst /\ Above(tdst, q) /\ pre[q].type # "Unknown"

\* C25: in Move mode a failed fs::rename is never what transfer returns.
\* The result of fs::rename is returned only when it is Ok; when fs::rename
\* had to fail, the fallback (move_file, move_dir) was called, and whenever
\* the fallback was called transfer returns its result: Ok with the file
\* at the destination and no longer at the source, or the fallback's error.
C25_FallbackAlone ==
    (Called /\ mode = "Move") =>
        /\ tby = "rename" => (tret = "Ok" /\ ~fallback)
        /\ RenameRefused => fallback
        /\ fallback => tby \in {"move_file", "move_dir"}
        /\ (fallback /\ pre[tsrc].type = "File") =>
                /\ tby = "move_file"
                /\ tret = "Ok"
                /\ fs[tdst] = pre[tsrc]
                /\ fs[tsrc].type = "Unknown"

\* The rename across devices failed, the fallback replaced an existing file.
C25_Witness ==
    /\ Called /\ mode = "Move" /\ fallback /\ tret = "Ok" /\ tby = "move_file"
    /\ pre[tsrc] = File("1") /\ pre[tdst] = File("2") /\ fs[tdst] = File("1")

----------------------------------------------------------------------------
(* More properties of the driver (specification Spec).                     *)

\* C26, as claimed: the error the process ends with is the error that was
\* raised: the cause of the record that failed to parse, or the error the
\* failed transfer returned, with and without verbose output.
C26_ErrorSurfaced ==
    (exit = "1") =>
        /\ (pc = "failed") => surfaced = ret.cause
        /\ (tret \notin {"-", "Ok"}) => surfaced = tret

\* C27, as claimed: verbose selects logging and nothing else.  For a pair
\* that was read, the loop does with verbose what it does without: it calls
\* transfer once, goes on to the next read when transfer returned Ok, and
\* ends with transfer's error otherwise.
C27_VerboseOnlyLogs ==
    [][ (pc = "pair") =>
            /\ nApplied' = nApplied + 1
            /\ (tret' = "Ok") => (pc' = "read" /\ err' = "-")
            /\ (tret' # "Ok") => (pc' = "aborted" /\ err' = tret')
      ]_vars

----------------------------------------------------------------------------
(* Properties of preview_line (specification SpecPreview).                 *)

\* C28, as claimed: a record of up to about 60 characters is previewed in
\* full and without the marker; a longer one is cut at a character and the
\* marker follows.
C28_PreviewBound ==
    (out # <<>>) =>
        /\ (Len(chars(input)) <= PREVIEW_60) => out[1] = chars(input)
        /\ (Len(chars(input)) > PREVIEW_60) =>
                /\ Len(out[1]) >= 3
                /\ SubSeq(out[1], Len(out[1]) - 2, Len(out[1])) = Marker

\* What preview_line does: the preview is the longest run of leading
\* characters of at most MAX_PREVIEW bytes in UTF-8, whole characters
\* only, and the marker follows if and only if characters were left out.
C28_PreviewCut ==
    (out # <<>>) =>
        LET cs == chars(input)
            shown == IF String_len(cs) <= MAX_PREVIEW THEN out[1]
                     ELSE SubSeq(out[1], 1, Len(out[1]) - 3)
        IN  /\ (String_len(cs) <= MAX_PREVIEW) => out[1] = cs
            /\ (String_len(cs) > MAX_PREVIEW) =>
                    /\ Len(out[1]) >= 3
                    /\ out[1] = shown \o Marker
                    /\ shown = SubSeq(cs, 1, Len(shown))
                    /\ String_len(shown) <= MAX_PREVIEW
                    /\ String_len(SubSeq(cs, 1, Len(shown) + 1)) > MAX_PREVIEW

----------------------------------------------------------------------------
(* Properties of a run on a file system (specification SpecRun).  In a     *)
(* step of RunTransfer the unprimed tsrc, tdst, tret and pre are those of  *)
(* the transfer before it.                                                 *)

\* The transfer about to be made has the source of the one before it, which
\* was a file, went to another path and succeeded.
SecondOfFile ==
    /\ pc = "pair" /\ nApplied > 0 /\ tret = "Ok"
    /\ ret.src = tsrc /\ tsrc # tdst
    /\ pre[tsrc].type = "File"

\* C29: the pending Source is kept after a transfer, and the file types are
\* those at the moment of each transfer.  A Dest line after a Source line
\* always gives a pair with that source.  When a file went to another path
\* and the next Dest line has the same source: in Move mode the source is
\* gone, the second transfer returns NotFound and changes nothing (its
\* destination is not created); in Copy mode, with a destination that can
\* be written, it returns Ok and the source and both destinations hold the
\* content of the source.
C29_ProbedEachTime ==
    [][ /\ (pc = "read" /\ nDest' = nDest + 1 /\ lastSource # None) =>
            (pc' = "pair" /\ ret'.src = lastSource[1])
        /\ (SecondOfFile /\ mode = "Move") =>
            /\ fs[tsrc].type = "Unknown"
            /\ tret' = "NotFound" /\ pc' = "aborted"
            /\ fs' = fs
        /\ (/\ SecondOfFile /\ mode = "Copy"
            /\ fs[ret.dst].type # "Dir" /\ Creatable(fs, Parent(ret.dst))) =>
            /\ tret' = "Ok" /\ pc' = "read"
            /\ fs'[tsrc] = pre[tsrc]
            /\ fs'[tdst] = pre[tsrc]
            /\ fs'[ret.dst] = pre[tsrc]
      ]_vars

\* `<a`, `>b`, `>c` in Move mode: b has the content, a is gone, c was not
\* created, the run ended with NotFound.
C29_Witness ==
    /\ mode = "Move" /\ exit = "1" /\ surfaced = "NotFound" /\ nApplied = 2
    /\ line = 3 /\ lastSource # None /\ tsrc = lastSource[1]
    /\ fs[tsrc].type = "Unknown" /\ fs[tdst].type = "Unknown"
    /\ \E b \in RunPaths : b # tsrc /\ b # tdst /\ fs[b] = File("1")

\* C30: no validation pass and no rollback.  Once the working directory is
\* set up, only a call of transfer changes it, and each call is made when
\* its Dest line is read: when a record fails, the transfers of all Dest
\* lines before it have been made and have succeeded, and the file system
\* is left as they made it; when a transfer fails, those before it have
\* succeeded, and a failure at the probe of the types changes nothing;
\* after the failure nothing is changed any more, up to the exit.
C30_NoRollback ==
    [][ /\ (line > 0 /\ fs' # fs) => (pc = "pair" /\ nApplied' = nApplied + 1)
        /\ (pc = "read" /\ pc' = "failed") =>
            /\ fs' = fs
            /\ nApplied = nDest
            /\ nApplied > 0 => tret = "Ok"
        /\ (pc = "pair") =>
            /\ nApplied' = nDest
            /\ nApplied > 0 => tret = "Ok"
            /\ (tret' \in {"NotFound", "Other"}) => fs' = fs
        /\ (pc \in {"failed", "aborted"}) => (fs' = fs /\ pc' = pc)
      ]_vars

\* A record failed after two transfers: both destinations hold the content
\* when the process has exited with status 1.
C30_Witness ==
    /\ exit = "1" /\ pc = "failed" /\ nApplied = 2 /\ mode = "Copy"
    /\ tsrc # tdst /\ fs[tdst] = File("2") /\ fs[tsrc] = File("2")
    /\ \E b \in RunPaths : b # tsrc /\ b # tdst /\ fs[b] = File("2")

----------------------------------------------------------------------------
(* Error precedence and termination (specifications Spec and SpecLive).    *)

\* C31: precedence of the parser's errors, for a record that was not refused
\* for its size.  NoSourcePath is reported only for a Dest line that is
\* well-formed (">" and a non-empty payload that decodes); ">" alone fails
\* with EmptyPath and ">" with a payload that does not decode fails with
\* InvalidEncoding, whether or not a Source is pending; "<" alone fails
\* with EmptyPath at that record, not at a later Dest line.
C31_Precedence ==
    /\ (pc = "failed" /\ ret.cause = "NoSourcePath") => IsDestLine(Rec)
    /\ (lret.kind = "Some" /\ ~Overflowed) =>
        /\ (Rec = <<GT>>) =>
                (pc = "failed" /\ ret = RetErr("EmptyPath", pulled))
        /\ (Len(Rec) >= 2 /\ Rec[1] = GT /\ ~Decodable(Payload(Rec))) =>
                (pc = "failed" /\ ret = RetErr("InvalidEncoding", pulled))
        /\ (Rec = <<LT>>) =>
                (pc = "failed" /\ ret = RetErr("EmptyPath", pulled))

\* ">" and a payload that does not decode, as the first record: no Source
\* is pending and the error is InvalidEncoding.
C31_Witness ==
    /\ pc = "failed" /\ ret = RetErr("InvalidEncoding", 1)
    /\ Rec = <<GT, XC3>> /\ lastSource = None /\ src = None

\* C32: on a finite input the program terminates, every call of transfer
\* returning.  An iteration of the loop of PathReader::read takes at least
\* one byte from the stream or returns None or an error, so the loop does
\* not go on over Source lines forever; on an exhausted stream read returns
\* None and no pair, a pending Source or not; and the process exits.
C32_Terminates ==
    /\ [][ (pc = "read" /\ line' # line) =>
                /\ Len(rest') < Len(rest) \/ pc' \in {"done", "failed"}
                /\ (Len(rest) = 0) =>
                        (pc' = "done" /\ ret' = RetNone /\ nPairs' = nPairs)
          ]_vars
    /\ <>(exit # "-")

\* The input ended after a Source line: None was returned with the Source
\* pending, and the process has exited with status 0.
C32_Witness ==
    /\ exit = "0" /\ pc = "done" /\ src # None /\ nPairs = 0
    /\ line = 3 /\ rest = <<>> /\ Len(input) = 5 /\ nDest = 0

====
